---- MODULE Spec2Model ----
(***************************************************************************)
(* The example notebooks of the repository: the Cirq routing example (the  *)
(* recorded routed circuit and qubit maps), the pyQuil retargeting example *)
(* and the QSE chemistry example, as run by a notebook kernel.             *)
(***************************************************************************)
EXTENDS Integers, Sequences, FiniteSets, TLC

VARIABLES
    parse,      \* which three CNOTs of a longer alternating run are the swap
    done,       \* indices of the routed circuit's gates already replayed
    mid,        \* CNOTs of a swap that has begun and is not yet complete
    place,      \* node of every tket qubit during the replay
    hist,       \* per tket qubit, the non-swap gates replayed on it so far
    recorded,   \* whether a router started from the placement route() returned
    rplace,     \* a router's current placement of the circuit's qubits
    ridx,       \* number of 2-qubit interactions it has placed so far
    nswaps,     \* number of swaps it has inserted so far
    nb,         \* the notebook the kernel runs
    pc,         \* <<code cell, statement>> the kernel is at
    status,     \* "running", "finished" or "error"
    fault,      \* "none", "raised" (a library call raised) or "NameError"
    raisedAt,   \* where a library call raised, <<0, 0>> if none did
    env,        \* the kernel's namespace: name -> binding site and value
    outs,       \* the statements that have printed or displayed something
    ran,        \* the statements that have completed
    iter        \* iterations done of the for loop the kernel is in

replayVars == <<parse, done, mid, place, hist>>
routeVars == <<recorded, rplace, ridx, nswaps>>

kernelVars == <<nb, pc, status, fault, raisedAt, env, outs, ran, iter>>

vars == <<replayVars, routeVars, kernelVars>>

(***************************************************************************)
(* Cirq routing example: architecture and qubits                           *)
(***************************************************************************)

\* arc = SquareGrid(3, 3)
Rows == 3
Cols == 3

Nodes == 0 .. (Rows * Cols - 1)

\* qubits = get_grid_qubits(arc, range(9)); tket qubit indices are 0..8
Qubits == 0 .. 8

\* "for a 3x3 grid, the indexing is: 0 1 2 / 3 4 5 / 6 7 8"
NodeOf(rc) == rc[1] * Cols + rc[2]
RowOf(n) == n \div Cols
ColOf(n) == n % Cols

Abs(x) == IF x < 0 THEN -x ELSE x

\* nearest neighbours taken to include the diagonal ones
AdjacentWithDiagonals(m, n) ==
    /\ m # n
    /\ Abs(RowOf(m) - RowOf(n)) <= 1
    /\ Abs(ColOf(m) - ColOf(n)) <= 1

\* nearest-neighbour qubits of the grid
Adjacent(m, n) ==
    Abs(RowOf(m) - RowOf(n)) + Abs(ColOf(m) - ColOf(n)) = 1

\* a python list is indexed from 0
At(s, i) == s[i + 1]

Range(s) == {s[i] : i \in DOMAIN s}

(***************************************************************************)
(* The sample circuit of cell 3                                            *)
(***************************************************************************)
\* the sample circuit with control and target of CNOT(3, 4) exchanged
circuitFlippedCnot ==
    << [g |-> "H",    q |-> <<0>>],
       [g |-> "X",    q |-> <<1>>],
       [g |-> "CNOT", q |-> <<0, 4>>],
       [g |-> "Y",    q |-> <<2>>],
       [g |-> "CNOT", q |-> <<2, 4>>],
       [g |-> "CNOT", q |-> <<4, 3>>],
       [g |-> "Y",    q |-> <<3>>],
       [g |-> "CNOT", q |-> <<3, 5>>],
       [g |-> "Z",    q |-> <<4>>] >>

circuit ==
    << [g |-> "H",    q |-> <<0>>],
       [g |-> "X",    q |-> <<1>>],
       [g |-> "CNOT", q |-> <<0, 4>>],
       [g |-> "Y",    q |-> <<2>>],
       [g |-> "CNOT", q |-> <<2, 4>>],
       [g |-> "CNOT", q |-> <<3, 4>>],
       [g |-> "Y",    q |-> <<3>>],
       [g |-> "CNOT", q |-> <<3, 5>>],
       [g |-> "Z",    q |-> <<4>>] >>

\* the gates of the sample circuit on tket qubit q, in circuit order
OnQubit(q) == SelectSeq(circuit, LAMBDA op : q \in Range(op.q))

(***************************************************************************)
(* The output of cell 4: print(qmap) and the routed circuit's diagram      *)
(***************************************************************************)
\* the final map not updated for the swaps
qmapWithoutSwaps ==
    << <<8, 3, 4, 6, 5, 7, 2, 1, 0>>,
       <<8, 3, 4, 6, 5, 7, 2, 1, 0>> >>

qmap ==
    << <<8, 3, 4, 6, 5, 7, 2, 1, 0>>,
       <<8, 3, 5, 7, 4, 6, 2, 1, 0>> >>

\* the wires of the diagram, top to bottom, as (row, column) grid qubits
Wires == << <<1, 0>>, <<1, 1>>, <<1, 2>>, <<2, 0>>, <<2, 1>>, <<2, 2>> >>

\* the diagram with the CNOT of column 3 left between (2, 2) and (1, 1)
DiagramUnroutedCnot ==
    << [sym |-> <<"X", "Y", "-", "X", "@", "H">>, bar |-> {4}],
       [sym |-> <<"-", "-", "-", "@", "X", "-">>, bar |-> {4}],
       [sym |-> <<"-", "X", "+", "+", "+", "@">>, bar |-> {2, 3, 4, 5}],
       [sym |-> <<"-", "@", "X", "X", "@", "-">>, bar |-> {2, 4}],
       [sym |-> <<"-", "X", "@", "-", "-", "-">>, bar |-> {2}],
       [sym |-> <<"-", "@", "X", "-", "-", "-">>, bar |-> {2}],
       [sym |-> <<"-", "X", "@", "-", "-", "-">>, bar |-> {2}],
       [sym |-> <<"-", "X", "+", "+", "@", "-">>, bar |-> {2, 3, 4}],
       [sym |-> <<"-", "Z", "-", "-", "Y", "-">>, bar |-> {}],
       [sym |-> <<"-", "-", "-", "X", "@", "-">>, bar |-> {4}] >>

\* The diagram, one record per text column that holds a gate.  sym[w] is the
\* character on wire w ("-" for the wire itself, "+" for a crossing); bar is
\* the set of gaps g (between wire g and wire g+1) holding a vertical bar.
Diagram ==
    << [sym |-> <<"X", "Y", "-", "X", "@", "H">>, bar |-> {4}],
       [sym |-> <<"-", "-", "-", "@", "X", "-">>, bar |-> {4}],
       [sym |-> <<"-", "-", "X", "+", "+", "@">>, bar |-> {3, 4, 5}],
       [sym |-> <<"-", "@", "X", "X", "@", "-">>, bar |-> {2, 4}],
       [sym |-> <<"-", "X", "@", "-", "-", "-">>, bar |-> {2}],
       [sym |-> <<"-", "@", "X", "-", "-", "-">>, bar |-> {2}],
       [sym |-> <<"-", "X", "@", "-", "-", "-">>, bar |-> {2}],
       [sym |-> <<"-", "X", "+", "+", "@", "-">>, bar |-> {2, 3, 4}],
       [sym |-> <<"-", "Z", "-", "-", "Y", "-">>, bar |-> {}],
       [sym |-> <<"-", "-", "-", "X", "@", "-">>, bar |-> {4}] >>

NWires == Len(Wires)

\* the last wire of the vertical line that starts at wire w of column col
RECURSIVE LineEnd(_, _)
LineEnd(col, w) == IF w \in col.bar THEN LineEnd(col, w + 1) ELSE w

\* the gates drawn in one column, from wire w down
RECURSIVE ColumnOps(_, _)
ColumnOps(col, w) ==
    IF w > NWires THEN << >>
    ELSE IF w \in col.bar /\ (w - 1) \notin col.bar
    THEN LET e == LineEnd(col, w)
             c == IF col.sym[w] = "@" THEN w ELSE e
             t == IF col.sym[w] = "@" THEN e ELSE w
         IN  << [g |-> "CNOT", q |-> <<NodeOf(Wires[c]), NodeOf(Wires[t])>>] >>
             \o ColumnOps(col, w + 1)
    ELSE IF w \notin col.bar /\ (w - 1) \notin col.bar
            /\ col.sym[w] \in {"X", "Y", "Z", "H"}
    THEN << [g |-> col.sym[w], q |-> <<NodeOf(Wires[w])>>] >>
             \o ColumnOps(col, w + 1)
    ELSE ColumnOps(col, w + 1)

\* the routed circuit as drawn: its gates on grid nodes, column by column
RECURSIVE DiagramOps(_)
DiagramOps(k) ==
    IF k > Len(Diagram) THEN << >>
    ELSE ColumnOps(Diagram[k], 1) \o DiagramOps(k + 1)

routed == DiagramOps(1)

NGates == Len(routed)

Touches(i, n) == n \in Range(routed[i].q)

\* gates that share a wire keep their order; others commute
Ready(i) ==
    /\ i \notin done
    /\ \A j \in 1 .. (i - 1) :
          (\E n \in Nodes : Touches(i, n) /\ Touches(j, n)) => j \in done

\* the next gate after gate i on node n, 0 if there is none
NextOn(i, n) ==
    LET later == {j \in (i + 1) .. NGates : Touches(j, n)}
    IN  IF later = {} THEN 0
        ELSE CHOOSE j \in later : \A k \in later : j <= k

\* the gate that directly follows CNOT i on both of its wires, 0 if none
Follower(i) ==
    LET a == routed[i].q[1]
        b == routed[i].q[2]
    IN  IF NextOn(i, a) = NextOn(i, b) THEN NextOn(i, a) ELSE 0

Alternates(i, j) ==
    /\ j # 0
    /\ routed[j].g = "CNOT"
    /\ routed[j].q = <<routed[i].q[2], routed[i].q[1]>>

\* length of the run of alternating CNOTs on one node pair that starts at i
RECURSIVE RunLength(_)
RunLength(i) ==
    IF routed[i].g # "CNOT" THEN 0
    ELSE IF Alternates(i, Follower(i)) THEN 1 + RunLength(Follower(i))
    ELSE 1

\* a swap is three alternating CNOTs on one node pair
IsSwapAt(i) ==
    \/ RunLength(i) = 3
    \/ RunLength(i) > 3 /\ parse = "swapFirst"

\* the tket qubit that sits on node n
QubitAt(n) == CHOOSE q \in Qubits : place[q] = n

(***************************************************************************)
(* Replay of the routed circuit under final_qubits = qubits[qmap[0][i]]    *)
(***************************************************************************)
ReplayInit ==
    /\ parse \in {"swapFirst", "gateFirst"}
    /\ done = {}
    /\ mid = {}
    /\ place = [q \in Qubits |-> At(qmap[1], q)]
    /\ hist = [q \in Qubits |-> << >>]

ReplayIdle ==
    /\ parse = "swapFirst"
    /\ done = {}
    /\ mid = {}
    /\ place = [q \in Qubits |-> At(qmap[1], q)]
    /\ hist = [q \in Qubits |-> << >>]

\* a gate of the sample circuit, found on the nodes its qubits now sit on
ReplayGate(i) ==
    /\ Ready(i)
    /\ i \notin mid
    /\ ~IsSwapAt(i)
    /\ LET op == routed[i]
           lq == [k \in DOMAIN op.q |-> QubitAt(op.q[k])]
       IN  hist' = [q \in Qubits |->
                      IF q \in Range(lq)
                      THEN Append(hist[q], [g |-> op.g, q |-> lq])
                      ELSE hist[q]]
    /\ done' = done \cup {i}
    /\ UNCHANGED <<parse, mid, place, routeVars, kernelVars>>

\* the first CNOT of an inserted swap
SwapBegin(i) ==
    /\ Ready(i)
    /\ i \notin mid
    /\ IsSwapAt(i)
    /\ done' = done \cup {i}
    /\ mid' = mid \cup {Follower(i), Follower(Follower(i))}
    /\ UNCHANGED <<parse, place, hist, routeVars, kernelVars>>

\* the second or third CNOT of a swap; the third exchanges the two qubits
SwapStep(i) ==
    /\ Ready(i)
    /\ i \in mid
    /\ done' = done \cup {i}
    /\ mid' = mid \ {i}
    /\ LET a == routed[i].q[1]
           b == routed[i].q[2]
           rest == {m \in mid \ {i} : Range(routed[m].q) = {a, b}}
       IN  place' = IF rest # {} THEN place
                    ELSE [q \in Qubits |->
                            IF place[q] = a THEN b
                            ELSE IF place[q] = b THEN a
                            ELSE place[q]]
    /\ UNCHANGED <<parse, hist, routeVars, kernelVars>>

ReplayNext ==
    \/ \E i \in 1 .. NGates : ReplayGate(i)
    \/ \E i \in 1 .. NGates : SwapBegin(i)
    \/ \E i \in 1 .. NGates : SwapStep(i)

Replayed == done = 1 .. NGates

(***************************************************************************)
(* Routing the sample circuit on the grid: what any router may do          *)
(***************************************************************************)

\* most swaps a router is followed for
MaxSwaps == 2

\* the 2-qubit interactions of the sample circuit, in circuit order
interactions == SelectSeq(circuit, LAMBDA op : Len(op.q) = 2)

\* the tket qubits that take part in a 2-qubit interaction; where the other
\* qubits sit decides nothing: a swap with one of them only moves its partner
InteractingQubits == UNION {Range(interactions[k].q) : k \in DOMAIN interactions}

Placements ==
    {f \in [InteractingQubits -> Nodes] :
        \A p, q \in InteractingQubits : p # q => f[p] # f[q]}

\* the initial placement route() returned for the sample circuit
RecordedStart == [q \in InteractingQubits |-> At(qmap[1], q)]

RouteIdle ==
    /\ recorded = TRUE
    /\ rplace = RecordedStart
    /\ ridx = 0
    /\ nswaps = 0

RouteInit ==
    /\ rplace \in Placements
    /\ recorded = (rplace = RecordedStart)
    /\ ridx = 0
    /\ nswaps = 0

\* the next interaction takes place: its qubits are nearest neighbours
Interact ==
    /\ ridx < Len(interactions)
    /\ LET op == interactions[ridx + 1]
       IN  Adjacent(rplace[op.q[1]], rplace[op.q[2]])
    /\ ridx' = ridx + 1
    /\ UNCHANGED <<recorded, rplace, nswaps, replayVars, kernelVars>>

\* a swap command is added on two neighbouring nodes
InsertSwap(m, n) ==
    /\ ridx < Len(interactions)
    /\ nswaps < MaxSwaps
    /\ m < n
    /\ Adjacent(m, n)
    /\ rplace' = [q \in InteractingQubits |->
                    IF rplace[q] = m THEN n
                    ELSE IF rplace[q] = n THEN m
                    ELSE rplace[q]]
    /\ nswaps' = nswaps + 1
    /\ UNCHANGED <<recorded, ridx, replayVars, kernelVars>>

RouteNext ==
    \/ Interact
    \/ \E m, n \in Nodes : InsertSwap(m, n)

Routed == ridx = Len(interactions)

(***************************************************************************)
(* The notebooks' code cells                                               *)
(*                                                                         *)
(* A statement is a record: k its kind, r the names it reads, w the names  *)
(* it binds, e the expression assigned, call whether it calls into an      *)
(* imported library, out whether it prints or displays, try whether it     *)
(* stands in a try block with an except clause.                            *)
(***************************************************************************)
Builtins == {"print", "len", "range", "enumerate"}

\* values
StrVal(parts) == [t |-> "str", parts |-> parts]
IntVal(i) == [t |-> "int", i |-> i]
FloatVal(whole, tenths) == [t |-> "float", whole |-> whole, tenths |-> tenths]
ListVal(n) == [t |-> "list", n |-> n]
Object == [t |-> "object"]

\* expressions
Lit(v) == [e |-> "lit", v |-> v]
Name(n) == [e |-> "name", n |-> n]
FormatOf(t, a) == [e |-> "format", t |-> t, a |-> a]
Dict(items) == [e |-> "dict", items |-> items]
\* a value produced by an imported library: nothing is known of it
Opaque == [e |-> "opaque"]
\* len(...) + len(...) of lists an imported library holds
Count == [e |-> "count"]
NoExpr == [e |-> "none"]

\* statements
Import(names) ==
    [k |-> "import", r |-> {}, w |-> names, e |-> Opaque,
     call |-> FALSE, out |-> FALSE, try |-> FALSE]
Assign(names, expr, reads, call) ==
    [k |-> "assign", r |-> reads, w |-> names, e |-> expr,
     call |-> call, out |-> FALSE, try |-> FALSE]
Call(reads) ==
    [k |-> "expr", r |-> reads, w |-> {}, e |-> NoExpr,
     call |-> TRUE, out |-> FALSE, try |-> FALSE]
Show(reads, call) ==
    [k |-> "expr", r |-> reads, w |-> {}, e |-> NoExpr,
     call |-> call, out |-> TRUE, try |-> FALSE]
\* for v in range(n): target.append(...)
ForAppend(v, n, target) ==
    [k |-> "for", r |-> {"range", n}, w |-> {v}, e |-> NoExpr,
     call |-> FALSE, out |-> FALSE, try |-> FALSE,
     n |-> n, v |-> v, target |-> target]

\* ---- Chemistry with Qiskit Aqua and t|ket>: Quantum Subspace Expansion ----
QSECell1 ==
    << Import({"qiskit"}),
       Import({"pytket"}) >>

QSECell2 ==
    << Assign({"bond_length"}, Lit(FloatVal(0, 7)), {}, FALSE),
       Assign({"base_molecule_str"},
              Lit(StrVal(<<"H .0 .0 .0; H .0 .0 ", "{}">>)), {}, FALSE),
       Assign({"charge"}, Lit(IntVal(0)), {}, FALSE),
       Assign({"spin"}, Lit(IntVal(0)), {}, FALSE),
       Assign({"basis"}, Lit(StrVal(<<"sto3g">>)), {}, FALSE) >>

\* cell 3 with the remote backend lines in place of the local ones
QSECell3Remote ==
    << Call({"qiskit"}),
       Assign({"backend_name"}, Lit(StrVal(<<"ibmqx5">>)), {}, FALSE),
       Assign({"backend"}, Opaque, {"qiskit", "backend"}, TRUE) >>

QSECell3 ==
    << Assign({"backend_name"}, Lit(StrVal(<<"statevector_simulator">>)),
              {}, FALSE),
       Assign({"backend"}, Opaque, {"qiskit", "backend_name"}, TRUE) >>

QSECell4 ==
    << Import({"QuantumInstance"}),
       Import({"PassManager"}),
       Import({"TketPass"}),
       Assign({"pass_manager"}, Opaque, {"PassManager"}, TRUE),
       Assign({"tk_pass"}, Opaque, {"TketPass", "backend"}, TRUE),
       Call({"pass_manager", "tk_pass"}),
       Assign({"quantum_instance"}, Opaque,
              {"QuantumInstance", "backend", "pass_manager"}, TRUE) >>

\* the driver configuration with the geometry string left unformatted
pyscf_cfgUnformatted ==
    Dict([atom   |-> Name("base_molecule_str"),
          unit   |-> Lit(StrVal(<<"Angstrom">>)),
          charge |-> Name("charge"),
          spin   |-> Name("spin"),
          basis  |-> Name("basis")])

pyscf_cfg ==
    Dict([atom   |-> FormatOf("base_molecule_str", "bond_length"),
          unit   |-> Lit(StrVal(<<"Angstrom">>)),
          charge |-> Name("charge"),
          spin   |-> Name("spin"),
          basis  |-> Name("basis")])

QSECell5 ==
    << Import({"ConfigurationManager"}),
       Assign({"cfg_mgr"}, Opaque, {"ConfigurationManager"}, TRUE),
       Assign({"driver"}, Opaque, {"cfg_mgr"}, TRUE),
       Assign({"pyscf_cfg"}, pyscf_cfg,
              {"base_molecule_str", "bond_length", "charge", "spin",
               "basis"}, FALSE),
       Assign({"molecule"}, Opaque, {"driver", "pyscf_cfg"}, TRUE),
       Show({"print", "molecule"}, FALSE) >>

QSECell6 ==
    << Import({"FermionicOperator"}),
       Import({"HartreeFock"}),
       Import({"UCCSD"}),
       Assign({"n_qubits"}, Opaque, {"molecule"}, FALSE),
       Assign({"n_electrons"}, Opaque, {"molecule"}, FALSE),
       Assign({"ferOp"}, Opaque, {"FermionicOperator", "molecule"}, TRUE),
       Assign({"qubitOp"}, Opaque, {"ferOp"}, TRUE),
       Call({"qubitOp"}),
       Assign({"initial_hf"}, Opaque,
              {"HartreeFock", "n_qubits", "n_electrons"}, TRUE),
       Assign({"var_form"}, Opaque,
              {"UCCSD", "n_qubits", "n_electrons", "initial_hf"}, TRUE) >>

QSECell7 ==
    << Import({"L_BFGS_B"}),
       Import({"VQE"}),
       Assign({"number_amplitudes"}, Count, {"len", "var_form"}, FALSE),
       Assign({"amplitudes_0"}, Lit(ListVal(0)), {}, FALSE),
       ForAppend("i", "number_amplitudes", "amplitudes_0"),
       Assign({"optimizer"}, Opaque, {"L_BFGS_B"}, TRUE),
       Call({"optimizer"}),
       Assign({"vqe_algorithm"}, Opaque,
              {"VQE", "qubitOp", "var_form", "optimizer", "amplitudes_0"},
              TRUE),
       Assign({"results"}, Opaque, {"vqe_algorithm", "quantum_instance"},
              TRUE),
       Assign({"eigval"}, Opaque, {"results"}, FALSE),
       Assign({"gs_energy"}, Opaque, {"eigval", "molecule"}, FALSE),
       Show({"print", "gs_energy"}, FALSE),
       Show({"print", "results"}, FALSE),
       Assign({"opti_amplitudes"}, Opaque, {"results"}, FALSE) >>

QSECell8 ==
    << Import({"QseMatrices", "QSE"}),
       Assign({"qubitOp"}, Opaque, {"ferOp"}, TRUE),
       Assign({"n_qubits"}, Opaque, {"qubitOp"}, FALSE),
       Call({"qubitOp"}),
       Assign({"matrix_terms"}, Opaque,
              {"QseMatrices", "qubitOp", "n_qubits"}, TRUE),
       Assign({"qse_algorithm"}, Opaque,
              {"QSE", "matrix_terms", "var_form", "opti_amplitudes"}, TRUE),
       Assign({"energies"}, Opaque, {"qse_algorithm", "quantum_instance"},
              TRUE),
       Show({"print", "energies", "molecule"}, FALSE) >>

QSE ==
    << QSECell1, QSECell2, QSECell3, QSECell4,
       QSECell5, QSECell6, QSECell7, QSECell8 >>

\* ---- pyQuil - t|ket> Retargetability Example ----
PyQuilCell1 ==
    << Import({"create_arbitrary_state"}),
       Import({"np"}),
       Assign({"target_state"}, Opaque, {"np"}, TRUE),
       Assign({"quil_circ"}, Opaque,
              {"create_arbitrary_state", "target_state"}, TRUE),
       Show({"print", "quil_circ"}, FALSE) >>

PyQuilCell2 ==
    << Import({"pyquil_to_tk"}),
       Assign({"tk_circ"}, Opaque, {"pyquil_to_tk", "quil_circ"}, TRUE) >>

PyQuilCell3 ==
    << Import({"optimise_pre_routing"}),
       Call({"optimise_pre_routing", "tk_circ"}),
       Call({"tk_circ"}) >>

\* cell 4 with execute() wrapped in try / except
PyQuilCell4Guarded ==
    << Import({"tk_to_dagcircuit"}),
       Assign({"dag_circ"}, Opaque, {"tk_to_dagcircuit", "tk_circ"}, TRUE),
       Import({"dag_to_circuit"}),
       Assign({"qis_circ"}, Opaque, {"dag_to_circuit", "dag_circ"}, TRUE),
       Import({"BasicAer", "execute"}),
       Assign({"backend"}, Opaque, {"BasicAer"}, TRUE),
       [Assign({"job"}, Opaque, {"execute", "qis_circ", "backend"}, TRUE)
           EXCEPT !.try = TRUE],
       Assign({"matrix"}, Opaque, {"job", "qis_circ"}, TRUE),
       Show({"print", "matrix"}, FALSE) >>

PyQuilCell4 ==
    << Import({"tk_to_dagcircuit"}),
       Assign({"dag_circ"}, Opaque, {"tk_to_dagcircuit", "tk_circ"}, TRUE),
       Import({"dag_to_circuit"}),
       Assign({"qis_circ"}, Opaque, {"dag_to_circuit", "dag_circ"}, TRUE),
       Import({"BasicAer", "execute"}),
       Assign({"backend"}, Opaque, {"BasicAer"}, TRUE),
       Assign({"job"}, Opaque, {"execute", "qis_circ", "backend"}, TRUE),
       Assign({"matrix"}, Opaque, {"job", "qis_circ"}, TRUE),
       Show({"print", "matrix"}, FALSE) >>

PyQuil == << PyQuilCell1, PyQuilCell2, PyQuilCell3, PyQuilCell4 >>

\* ---- Cirq - t|ket> routing example ----
CirqCell1 ==
    << Import({"cirq"}),
       Import({"SquareGrid", "route"}),
       Import({"get_grid_qubits", "cirq_to_tk", "tk_to_cirq"}) >>

CirqCell2 ==
    << Assign({"arc"}, Opaque, {"SquareGrid"}, TRUE),
       Assign({"qubits"}, Opaque, {"get_grid_qubits", "arc", "range"},
              TRUE) >>

CirqCell3 ==
    << Assign({"circuit"}, Opaque, {"cirq", "qubits"}, TRUE),
       Show({"circuit"}, FALSE) >>

CirqCell4 ==
    << Assign({"tk_circ"}, Opaque, {"cirq_to_tk", "circuit"}, TRUE),
       Assign({"tk_routed", "qmap"}, Opaque, {"route", "tk_circ", "arc"},
              TRUE),
       Show({"print", "qmap"}, FALSE),
       Assign({"final_qubits"}, Opaque, {"qubits", "enumerate", "qmap"},
              FALSE),
       Show({"tk_to_cirq", "tk_routed", "final_qubits"}, TRUE) >>

CirqCell5 == << >>

Cirq == << CirqCell1, CirqCell2, CirqCell3, CirqCell4, CirqCell5 >>

Notebooks == {"qse", "pyquil", "cirq"}

Cells(n) ==
    CASE n = "qse" -> QSE
      [] n = "pyquil" -> PyQuil
      [] n = "cirq" -> Cirq

(***************************************************************************)
(* The kernel: cells run top to bottom, statement by statement             *)
(***************************************************************************)

\* most excitations the variational form is followed for
MaxAmplitudes == 2

RECURSIVE Join(_)
Join(parts) ==
    IF parts = << >> THEN "" ELSE Head(parts) \o Join(Tail(parts))

\* str(v)
PyStr(v) ==
    CASE v.t = "str" -> Join(v.parts)
      [] v.t = "int" -> ToString(v.i)
      [] v.t = "float" -> ToString(v.whole) \o "." \o ToString(v.tenths)

\* template.format(arg): every replacement field "{}" becomes str(arg)
RECURSIVE Format(_, _)
Format(parts, arg) ==
    IF parts = << >> THEN ""
    ELSE (IF Head(parts) = "{}" THEN PyStr(arg) ELSE Head(parts))
         \o Format(Tail(parts), arg)

RECURSIVE Eval(_, _)
Eval(x, en) ==
    CASE x.e = "lit" -> x.v
      [] x.e = "name" -> en[x.n].val
      [] x.e = "format" -> StrVal(<<Format(en[x.t].val.parts, en[x.a].val)>>)
      [] x.e = "dict" ->
            [t |-> "dict", d |-> [k \in DOMAIN x.items |-> Eval(x.items[k], en)]]
      [] OTHER -> Object

\* the values an expression may have
Values(x, en) ==
    IF x.e = "count" THEN {IntVal(i) : i \in 0 .. MaxAmplitudes}
    ELSE {Eval(x, en)}

NoSite == <<0, 0>>

Before(a, b) == a[1] < b[1] \/ (a[1] = b[1] /\ a[2] < b[2])

\* the first statement at or after cell c of notebook n
RECURSIVE FirstFrom(_, _)
FirstFrom(n, c) ==
    IF c > Len(Cells(n)) THEN NoSite
    ELSE IF Len(Cells(n)[c]) > 0 THEN <<c, 1>>
    ELSE FirstFrom(n, c + 1)

\* the statement that follows p in document order
After(n, p) ==
    IF p[2] < Len(Cells(n)[p[1]]) THEN <<p[1], p[2] + 1>>
    ELSE FirstFrom(n, p[1] + 1)

\* the statements of notebook n
Sites(n) ==
    UNION {{<<c, s>> : s \in DOMAIN Cells(n)[c]} : c \in DOMAIN Cells(n)}

Stmt == Cells(nb)[pc[1]][pc[2]]

Bound == DOMAIN env \cup Builtins

Goto(p) ==
    IF p = NoSite
    THEN pc' = pc /\ status' = "finished"
    ELSE pc' = p /\ status' = "running"

NameError ==
    /\ status' = "error"
    /\ fault' = "NameError"
    /\ UNCHANGED <<nb, pc, raisedAt, env, outs, ran, iter>>

KernelInit ==
    /\ nb \in Notebooks
    /\ pc = FirstFrom(nb, 1)
    /\ status = "running"
    /\ fault = "none"
    /\ raisedAt = NoSite
    /\ env = [x \in {} |-> Object]
    /\ outs = {}
    /\ ran = {}
    /\ iter = 0

KernelIdle ==
    /\ nb = "cirq"
    /\ pc = FirstFrom(nb, 1)
    /\ status = "running"
    /\ fault = "none"
    /\ raisedAt = NoSite
    /\ env = [x \in {} |-> Object]
    /\ outs = {}
    /\ ran = {}
    /\ iter = 0

\* an import, an assignment or an expression statement runs to its end
Exec ==
    /\ status = "running"
    /\ Stmt.k # "for"
    /\ IF Stmt.r \subseteq Bound
       THEN /\ \E v \in Values(Stmt.e, env) :
                 env' = [x \in DOMAIN env \cup Stmt.w |->
                           IF x \in Stmt.w THEN [site |-> pc, val |-> v]
                           ELSE env[x]]
            /\ outs' = IF Stmt.out THEN outs \cup {pc} ELSE outs
            /\ ran' = ran \cup {pc}
            /\ Goto(After(nb, pc))
            /\ UNCHANGED <<nb, fault, raisedAt, iter>>
       ELSE NameError
    /\ UNCHANGED <<replayVars, routeVars>>

\* the library call of the statement raises
Raise ==
    /\ status = "running"
    /\ Stmt.call
    /\ Stmt.r \subseteq Bound
    /\ raisedAt' = pc
    /\ IF Stmt.try
       THEN Goto(After(nb, pc)) /\ UNCHANGED fault
       ELSE pc' = pc /\ status' = "error" /\ fault' = "raised"
    /\ UNCHANGED <<nb, env, outs, ran, iter>>
    /\ UNCHANGED <<replayVars, routeVars>>

\* one more pass through the body of a for loop
ForIter ==
    /\ status = "running"
    /\ Stmt.k = "for"
    /\ Stmt.r \subseteq Bound
    /\ iter < env[Stmt.n].val.i
    /\ IF Stmt.target \in Bound
       THEN /\ env' = [x \in DOMAIN env \cup {Stmt.v} |->
                         IF x = Stmt.v THEN [site |-> pc, val |-> IntVal(iter)]
                         ELSE IF x = Stmt.target
                         THEN [env[x] EXCEPT !.val = ListVal(env[x].val.n + 1)]
                         ELSE env[x]]
            /\ iter' = iter + 1
            /\ UNCHANGED <<nb, pc, status, fault, raisedAt, outs, ran>>
       ELSE NameError
    /\ UNCHANGED <<replayVars, routeVars>>

\* the range of a for loop is exhausted
ForExit ==
    /\ status = "running"
    /\ Stmt.k = "for"
    /\ IF Stmt.r \subseteq Bound
       THEN /\ iter = env[Stmt.n].val.i
            /\ iter' = 0
            /\ ran' = ran \cup {pc}
            /\ Goto(After(nb, pc))
            /\ UNCHANGED <<nb, fault, raisedAt, env, outs>>
       ELSE NameError
    /\ UNCHANGED <<replayVars, routeVars>>

KernelNext ==
    \/ Exec
    \/ Raise
    \/ ForIter
    \/ ForExit

(***************************************************************************)
(* Specifications                                                          *)
(***************************************************************************)
Init == KernelInit /\ ReplayIdle /\ RouteIdle

Next == KernelNext

Spec == Init /\ [][Next]_vars

InitReplay ==
    /\ ReplayInit
    /\ RouteIdle
    /\ KernelIdle

SpecReplay == InitReplay /\ [][ReplayNext]_vars

InitRoute ==
    /\ RouteInit
    /\ ReplayIdle
    /\ KernelIdle

SpecRoute == InitRoute /\ [][RouteNext]_vars

(***************************************************************************)
(* Properties of the Cirq routing example                                  *)
(***************************************************************************)

\* C1: every 2-qubit gate of the recorded routed circuit acts on two grid
\* qubits that are nearest neighbours (positions differ by exactly 1 in one
\* coordinate and 0 in the other).
C1_RoutedGatesAreLocal ==
    \A i \in done :
        Len(routed[i].q) = 2 => Adjacent(routed[i].q[1], routed[i].q[2])

\* the CNOT between (2, 2) and (1, 2) has been replayed
C1_Witness ==
    \E i \in done : routed[i].g = "CNOT" /\ routed[i].q = <<8, 5>>

IsPrefix(s, t) == Len(s) <= Len(t) /\ s = SubSeq(t, 1, Len(s))

\* C2: replayed from the placement qmap[0], with the placement updated at
\* each swap, the non-swap gates of the routed circuit are the gates of the
\* sample circuit, on the same tket qubits and in the same order on every
\* tket qubit.
C2_RoutingPreservesCircuit ==
    /\ \A q \in Qubits : IsPrefix(hist[q], OnQubit(q))
    /\ Replayed => \A q \in Qubits : hist[q] = OnQubit(q)

\* the whole routed circuit has been replayed, the three CNOTs onto tket
\* qubit 4 and its Z among them
C2_Witness ==
    /\ Replayed
    /\ Len(hist[4]) = 4
    /\ hist[4][3] = [g |-> "CNOT", q |-> <<3, 4>>]

\* C3: applying the swaps of the routed circuit, in circuit order, to the
\* placement qmap[0] gives the placement qmap[1].
C3_FinalPlacementIsQmap1 ==
    Replayed => \A q \in Qubits : place[q] = At(qmap[2], q)

\* both swaps have been applied: tket qubits 2 and 3 have moved
C3_Witness ==
    Replayed /\ place[2] = 5 /\ place[3] = 7

C5_NamesBoundBeforeRead ==
    /\ fault # "NameError"
    /\ status # "finished" => ran = {p \in Sites(nb) : Before(p, pc)}
    /\ status = "finished" => ran = Sites(nb)
    /\ status = "running" =>
          \A n \in (Stmt.r \cup (IF Stmt.k = "for" THEN {Stmt.target} ELSE {}))
                  \ Builtins :
              n \in DOMAIN env /\ Before(env[n].site, pc)

\* the QSE cell is about to build QSE from var_form and opti_amplitudes,
\* bound two cells and one cell earlier
C5_Witness ==
    /\ nb = "qse"
    /\ status = "running"
    /\ pc = <<8, 6>>
    /\ {"var_form", "opti_amplitudes", "matrix_terms"} \subseteq Stmt.r
    /\ env["var_form"].site[1] = 6
    /\ env["opti_amplitudes"].site[1] = 7

BindingSites == {env[n].site : n \in DOMAIN env}

\* C6: no statement stands in a try block, and once a library call has
\* raised the kernel is in error at that statement: neither it nor a later
\* statement has completed, bound a name or produced output.
C6_UncaughtRaiseEndsCell ==
    /\ status = "running" => ~Stmt.try
    /\ raisedAt # NoSite =>
          /\ status = "error"
          /\ fault = "raised"
          /\ pc = raisedAt
          /\ \A p \in ran \cup outs \cup BindingSites : Before(p, raisedAt)

\* vqe_algorithm.run raised: results, the energies and their printout are
\* missing while what precedes it in the cell is there
C6_Witness ==
    /\ nb = "qse"
    /\ raisedAt = <<7, 9>>
    /\ status = "error"
    /\ "vqe_algorithm" \in DOMAIN env
    /\ {"results", "eigval", "gs_energy", "opti_amplitudes"} \cap DOMAIN env = {}
    /\ outs = {<<5, 6>>}

ConfigNames ==
    {"bond_length", "base_molecule_str", "charge", "spin", "basis",
     "backend_name", "backend"}

\* C7: in the QSE notebook the configuration names are bound by the
\* configuration cells (2 and 3) only, and the driver configuration has
\* exactly the keys atom, unit, charge, spin, basis, atom being the H2
\* string with bond_length substituted.
C7_ConfigurationFixedOnce ==
    nb = "qse" =>
      /\ \A n \in ConfigNames \cap DOMAIN env : env[n].site[1] \in {2, 3}
      /\ "pyscf_cfg" \in DOMAIN env =>
            LET d == env["pyscf_cfg"].val.d
            IN  /\ DOMAIN d = {"atom", "unit", "charge", "spin", "basis"}
                /\ d["atom"] = StrVal(<<"H .0 .0 .0; H .0 .0 0.7">>)
                /\ d["atom"] = StrVal(<<Format(
                                   env["base_molecule_str"].val.parts,
                                   env["bond_length"].val)>>)

\* the whole QSE notebook has run with the configuration in place
C7_Witness ==
    /\ nb = "qse"
    /\ status = "finished"
    /\ ConfigNames \cup {"pyscf_cfg"} \subseteq DOMAIN env
    /\ env["pyscf_cfg"].val.d["basis"] = StrVal(<<"sto3g">>)

====
